---------------------------- MODULE Spec2Model ----------------------------
(***************************************************************************)
(* Model of training/Conv3D/conv3d_retreival.py: the frame sampler         *)
(* (DataHandler.sample_frames), the dataset builder                        *)
(* (prepare_training_data, get_training_data), the training driver         *)
(* (Trainer.__init__, Trainer.train) and the retrieval evaluator           *)
(* (Tester.test).  Each component has its own specification; the           *)
(* variables of the other components stay at their idle values.            *)
(***************************************************************************)
EXTENDS Integers, Sequences, FiniteSets, TLC

VARIABLES
    \* ---- DataHandler.sample_frames
    opened,        \* cap.isOpened()
    frame_total,   \* int(cap.get(CAP_PROP_FRAME_COUNT))
    delivered,     \* number of frames cap.read() yields before isRead is False
    read_count,    \* read_count
    frames_list,   \* frames_list: a frame is its 1-based read position
    s_pc,          \* "loop" | "returned" | "raised"
    s_result,      \* the array returned by sample_frames
    \* ---- Tester.test
    feature_vectors,  \* self.test_model.predict(self.X_train): one vector per example
    y_train,          \* self.y_train: one label per example
    t_idx,            \* idx of the row the loop handles next (1-based)
    accuracy_list,    \* accuracy_list
    recorded,         \* history: the idx each entry of accuracy_list came from
    t_pc,             \* "loop" | "report" | "done"
    mean_accuracy,    \* np.mean(accuracy_list), as printed
    \* ---- Trainer.train
    model_path,    \* the placeholders of the checkpoint file name template
    epoch,         \* number of epochs fit() has completed
    best,          \* ModelCheckpoint.best
    checkpoints,   \* checkpoint files written: [epoch, val_accuracy]
    prior_max,     \* history: highest validation accuracy of the completed epochs
    improved,      \* history: epochs whose validation accuracy exceeded all earlier ones
    tr_pc,         \* "fit" | "raised" | "done"
    \* ---- DataHandler.get_training_data, Trainer.__init__
    tree,          \* the dataset root: class directory -> the files in it
    clock,         \* datetime.now(), counted in half minutes
    global_rng,    \* number of draws made from the global np.random generator
    dirs,          \* the run directories that exist
    files,         \* the snapshot files that exist: path -> pickled dict
    ret,           \* what the last call returned (or "none")
    outcome,       \* how the last call ended
    last_call,     \* the last call and its arguments
    ncalls,        \* number of calls made
    extractions,   \* history: number of prepare_training_data invocations
    loads,         \* history: number of snapshots read
    built,         \* history: the last result of prepare_training_data, with its tree
    builds         \* history: [tree, ret] of every successful extracting call

samplerVars == <<opened, frame_total, delivered, read_count, frames_list, s_pc, s_result>>
testerVars == <<feature_vectors, y_train, t_idx, accuracy_list, recorded, t_pc,
                mean_accuracy>>

trainVars == <<model_path, epoch, best, checkpoints, prior_max, improved, tr_pc>>

dataVars == <<tree, clock, global_rng, dirs, files, ret, outcome, last_call, ncalls,
              extractions, loads, built, builds>>

vars == <<samplerVars, testerVars, trainVars, dataVars>>

(***************************************************************************)
(* Bounds of the model.                                                    *)
(***************************************************************************)
MaxFrames == 118   \* largest frame count a video reports
MaxDrop   == 1     \* how many frames fewer than reported a stream may deliver
MaxExamples == 3   \* largest number of training examples given to Tester.test
MaxAccuracy == 2   \* validation accuracy takes the values 0..MaxAccuracy
MaxClasses == 2    \* class directories are named 1..MaxClasses (in sorted order)
MaxFilesPerClass == 2  \* files of a class are named 1..MaxFilesPerClass
MaxClock == 2      \* the clock runs from 0 to MaxClock half minutes
MaxDraws == 1      \* draws other code makes from the global generator
MaxCalls == 2      \* calls made in one run

(***************************************************************************)
(* DataHandler.__init__                                                    *)
(***************************************************************************)
n_frames == 16

(***************************************************************************)
(* Python arithmetic.                                                      *)
(***************************************************************************)
\* int(a / b) for b > 0: true division, then truncation toward zero
PyIntOfQuotient(a, b) == IF a >= 0 THEN a \div b ELSE -((-a) \div b)

\* a % b for b # 0: the result takes the sign of the divisor
PyMod(a, b) == IF b > 0 THEN a % b ELSE -((-a) % (-b))

(***************************************************************************)
(* DataHandler.sample_frames                                               *)
(***************************************************************************)
StrideNoOffset(ft) == PyIntOfQuotient(ft, n_frames)

\* int(frame_total/self.n_frames) - 5
Stride(ft) == PyIntOfQuotient(ft, n_frames) - 5

\* frames_list[:self.n_frames]
Prefix(s, n) == IF Len(s) <= n THEN s ELSE SubSeq(s, 1, n)

SamplerInit ==
    /\ opened \in BOOLEAN
    /\ frame_total \in 0..MaxFrames
    /\ delivered \in 0..MaxFrames
    /\ IF opened
         THEN frame_total - delivered \in 0..MaxDrop
         ELSE frame_total = 0 /\ delivered = 0
    /\ read_count = 1
    /\ frames_list = <<>>
    /\ s_pc = "loop"
    /\ s_result = <<>>

SamplerIdle ==
    /\ opened = FALSE
    /\ frame_total = 0
    /\ delivered = 0
    /\ read_count = 1
    /\ frames_list = <<>>
    /\ s_pc = "idle"
    /\ s_result = <<>>

\* while cap.isOpened() is False on entry: return np.array([])
SampleNotOpened ==
    /\ s_pc = "loop"
    /\ ~opened
    /\ s_pc' = "returned"
    /\ s_result' = Prefix(frames_list, n_frames)
    /\ UNCHANGED <<opened, frame_total, delivered, read_count, frames_list>>

\* isRead is False: break, then return
SampleEndOfStream ==
    /\ s_pc = "loop"
    /\ opened
    /\ read_count > delivered
    /\ s_pc' = "returned"
    /\ s_result' = Prefix(frames_list, n_frames)
    /\ UNCHANGED <<opened, frame_total, delivered, read_count, frames_list>>

\* read_count % 0 raises ZeroDivisionError
SampleZeroDivision ==
    /\ s_pc = "loop"
    /\ opened
    /\ read_count <= delivered
    /\ Stride(frame_total) = 0
    /\ s_pc' = "raised"
    /\ UNCHANGED <<opened, frame_total, delivered, read_count, frames_list, s_result>>

\* one iteration that reads a frame, keeps it when read_count is a multiple
\* of the stride, and leaves the loop once n_frames frames are kept
SampleRead ==
    /\ s_pc = "loop"
    /\ opened
    /\ read_count <= delivered
    /\ Stride(frame_total) # 0
    /\ LET kept == IF PyMod(read_count, Stride(frame_total)) = 0
                     THEN Append(frames_list, read_count)
                     ELSE frames_list
       IN /\ frames_list' = kept
          /\ read_count' = read_count + 1
          /\ IF Len(kept) = n_frames
               THEN s_pc' = "returned" /\ s_result' = Prefix(kept, n_frames)
               ELSE s_pc' = "loop" /\ s_result' = s_result
    /\ UNCHANGED <<opened, frame_total, delivered>>

(***************************************************************************)
(* Tester.test                                                             *)
(***************************************************************************)
\* embeddings the submodel may produce (rows of feature_vectors)
Embeddings == {<<0, 0>>, <<1, 0>>, <<0, 1>>, <<1, 1>>, <<3, 1>>}
Labels == {0, 1}

\* self.distance_threshold = 0.9, as the fraction 9/10
ThresholdNum == 9
ThresholdDen == 10

Dot(a, b) == a[1] * b[1] + a[2] * b[2]

\* cosine_similarity(a, b) > self.distance_threshold.  sklearn divides each
\* row by its norm, a zero norm being replaced by 1, so a zero row has
\* similarity 0 to every row, itself included.
ExceedsThreshold(a, b) ==
    LET d == Dot(a, b)
    IN /\ d > 0
       /\ d * d * ThresholdDen * ThresholdDen
            > ThresholdNum * ThresholdNum * Dot(a, a) * Dot(b, b)

RetrievedOthers(fv, idx) ==
    {j \in 1..Len(fv) : j # idx /\ ExceedsThreshold(fv[idx], fv[j])}

\* np.argwhere(row > self.distance_threshold): the indexes of the row's
\* entries above the threshold
RetrievedIndexes(fv, idx) ==
    {j \in 1..Len(fv) : ExceedsThreshold(fv[idx], fv[j])}

\* np.squeeze of the (k, 1) argwhere result: a 0-d array when k = 1, so that
\* self.y_train[retrieved_indexes] is a scalar and len() raises TypeError
SqueezedIsScalar(k) == k = 1

NaN == [nan |-> TRUE, num |-> 0, den |-> 1]
Frac(n, d) == [nan |-> FALSE, num |-> n, den |-> d]

\* accuracy_score(actual_labels, retrieved_labels): the fraction of retrieved
\* labels equal to the query's label; the average of no score is nan
AccuracyScore(y, idx, retrieved) ==
    IF retrieved = {}
      THEN NaN
      ELSE Frac(Cardinality({j \in retrieved : y[j] = y[idx]}),
                Cardinality(retrieved))

RECURSIVE SumFrac(_)
SumFrac(list) ==
    IF list = <<>>
      THEN Frac(0, 1)
      ELSE LET h == Head(list)
               t == SumFrac(Tail(list))
           IN IF h.nan \/ t.nan
                THEN NaN
                ELSE Frac(h.num * t.den + t.num * h.den, h.den * t.den)

\* np.mean(accuracy_list): nan for an empty list or a list holding nan
Mean(list) ==
    IF list = <<>>
      THEN NaN
      ELSE LET s == SumFrac(list)
           IN IF s.nan THEN NaN ELSE Frac(s.num, s.den * Len(list))

TesterInit ==
    /\ \E n \in 1..MaxExamples :
         /\ feature_vectors \in [1..n -> Embeddings]
         /\ y_train \in [1..n -> Labels]
    /\ t_idx = 1
    /\ accuracy_list = <<>>
    /\ recorded = <<>>
    /\ t_pc = "loop"
    /\ mean_accuracy = NaN

TesterIdle ==
    /\ feature_vectors = <<>>
    /\ y_train = <<>>
    /\ t_idx = 1
    /\ accuracy_list = <<>>
    /\ recorded = <<>>
    /\ t_pc = "idle"
    /\ mean_accuracy = NaN

\* the loop has handled every row
TestLoopEnd ==
    /\ t_pc = "loop"
    /\ t_idx > Len(feature_vectors)
    /\ t_pc' = "report"
    /\ UNCHANGED <<feature_vectors, y_train, t_idx, accuracy_list, recorded,
                   mean_accuracy>>

\* one row whose body raises: the bare except continues with the next row
TestRowSuppressed ==
    /\ t_pc = "loop"
    /\ t_idx <= Len(feature_vectors)
    /\ SqueezedIsScalar(Cardinality(RetrievedIndexes(feature_vectors, t_idx)))
    /\ t_idx' = t_idx + 1
    /\ UNCHANGED <<feature_vectors, y_train, accuracy_list, recorded, t_pc,
                   mean_accuracy>>

\* one row whose accuracy is appended to accuracy_list
TestRowRecorded ==
    /\ t_pc = "loop"
    /\ t_idx <= Len(feature_vectors)
    /\ ~SqueezedIsScalar(Cardinality(RetrievedIndexes(feature_vectors, t_idx)))
    /\ accuracy_list' =
         Append(accuracy_list,
                AccuracyScore(y_train, t_idx, RetrievedIndexes(feature_vectors, t_idx)))
    /\ recorded' = Append(recorded, t_idx)
    /\ t_idx' = t_idx + 1
    /\ UNCHANGED <<feature_vectors, y_train, t_pc, mean_accuracy>>

\* print("Mean Retrieval Accuracy", np.mean(accuracy_list))
TestReport ==
    /\ t_pc = "report"
    /\ mean_accuracy' = Mean(accuracy_list)
    /\ t_pc' = "done"
    /\ UNCHANGED <<feature_vectors, y_train, t_idx, accuracy_list, recorded>>

(***************************************************************************)
(* Trainer.train                                                           *)
(***************************************************************************)
\* self.epochs = 50
epochs == 50

\* the metrics given to self.c3d_model.compile(optimizer=..., loss=...)
CompiledMetrics == {}

\* the keys of the logs fit() hands to the callbacks at the end of an epoch
\* with a validation split: the loss and each compiled metric, and the same
\* with the val_ prefix
LogKeys(metrics) ==
    {"loss", "val_loss"}
      \cup (IF "accuracy" \in metrics THEN {"accuracy", "val_accuracy"} ELSE {})

\* ModelCheckpoint(monitor='val_accuracy', save_best_only=True, mode='max')
monitor == "val_accuracy"

\* "C3D_E{epoch:02d}_VA{val_accuracy:.2f}.hdf5"
DefaultModelPath == {"epoch", "val_accuracy"}

\* the model_path argument: None, or a template of the caller's
ModelPaths == {DefaultModelPath, {"epoch"}, {}, {"epoch", "val_loss"}}

\* -np.Inf and the finite values a monitored quantity takes
NegInf == [neg_inf |-> TRUE, value |-> 0]
Finite(v) == [neg_inf |-> FALSE, value |-> v]

\* mode='max': monitor_op is np.greater and best starts at -inf
MonitorOp(current, b) == b.neg_inf \/ current > b.value

TrainInit ==
    /\ model_path \in ModelPaths
    /\ epoch = 0
    /\ best = NegInf
    /\ checkpoints = {}
    /\ prior_max = NegInf
    /\ improved = {}
    /\ tr_pc = "fit"

TrainIdle ==
    /\ model_path = {}
    /\ epoch = 0
    /\ best = NegInf
    /\ checkpoints = {}
    /\ prior_max = NegInf
    /\ improved = {}
    /\ tr_pc = "idle"

\* the end of one epoch of fit(): ModelCheckpoint.on_epoch_end formats the
\* file name from the logs (KeyError for a placeholder the logs lack), then
\* saves when the monitored value is in the logs and improves on best
EpochEnd ==
    /\ tr_pc = "fit"
    /\ epoch < epochs
    /\ \E val_accuracy \in 0..MaxAccuracy :
         LET keys == LogKeys(CompiledMetrics)
         IN /\ epoch' = epoch + 1
            /\ prior_max' = IF MonitorOp(val_accuracy, prior_max)
                              THEN Finite(val_accuracy) ELSE prior_max
            /\ improved' = IF MonitorOp(val_accuracy, prior_max)
                             THEN improved \cup {epoch + 1} ELSE improved
            /\ IF ~(model_path \subseteq keys \cup {"epoch"})
                 THEN /\ tr_pc' = "raised"
                      /\ UNCHANGED <<best, checkpoints>>
                 ELSE /\ tr_pc' = "fit"
                      /\ IF monitor \in keys /\ MonitorOp(val_accuracy, best)
                           THEN /\ best' = Finite(val_accuracy)
                                /\ checkpoints' = checkpoints \cup
                                     {[epoch |-> epoch + 1, val_accuracy |-> val_accuracy]}
                           ELSE UNCHANGED <<best, checkpoints>>
    /\ UNCHANGED model_path

\* fit() returns after self.epochs epochs
FitReturns ==
    /\ tr_pc = "fit"
    /\ epoch = epochs
    /\ tr_pc' = "done"
    /\ UNCHANGED <<model_path, epoch, best, checkpoints, prior_max, improved>>

(***************************************************************************)
(* DataHandler.prepare_training_data                                       *)
(***************************************************************************)
ClassNames == 1..MaxClasses
FileNames == 1..MaxFilesPerClass

\* the directory layouts: one subdirectory per class, each holding files
Trees == UNION {[cs -> SUBSET FileNames] : cs \in SUBSET ClassNames}

Min(S) == CHOOSE m \in S : \A x \in S : m <= x

\* sorted(...)
RECURSIVE Sorted(_)
Sorted(S) == IF S = {} THEN <<>> ELSE <<Min(S)>> \o Sorted(S \ {Min(S)})

IndexOf(seq, x) == CHOOSE i \in 1..Len(seq) : seq[i] = x

ClassesFromOne(folders) ==
    [f \in {folders[i] : i \in 1..Len(folders)} |-> IndexOf(folders, f)]

\* dict([(folder, idx) for idx, folder in enumerate(folders)])
Classes(folders) ==
    [f \in {folders[i] : i \in 1..Len(folders)} |-> IndexOf(folders, f) - 1]

\* self.extract_video_features(video_file): the frames sampled from the file
ExtractVideoFeatures(video_file) == [frames_of |-> video_file]

\* sorted(glob(os.path.join(folder_path, "*"))): no match for a missing folder
VideoFiles(root, folder) ==
    IF folder \in DOMAIN root
      THEN LET names == Sorted(root[folder])
           IN [i \in 1..Len(names) |-> <<folder, names[i]>>]
      ELSE <<>>

\* the samples the loops append, as [x, y, v] rows: for each folder in order,
\* for each of its video files in order, the features, classes[folder], the path
RECURSIVE Samples(_, _, _)
Samples(folders, classes, self_videos_path) ==
    IF folders = <<>>
      THEN <<>>
      ELSE LET video_files == VideoFiles(self_videos_path, Head(folders))
           IN [i \in 1..Len(video_files) |->
                 [x |-> ExtractVideoFeatures(video_files[i]),
                  y |-> classes[Head(folders)],
                  v |-> video_files[i]]]
              \o Samples(Tail(folders), classes, self_videos_path)

\* prepare_training_data(videos_path): the folders are listed under the
\* argument, their files under self.videos_path
PrepareTrainingData(videos_path, self_videos_path) ==
    LET folders == Sorted(DOMAIN videos_path)
        classes == Classes(folders)
        rows == Samples(folders, classes, self_videos_path)
    IN [X |-> [i \in 1..Len(rows) |-> rows[i].x],
        y |-> [i \in 1..Len(rows) |-> rows[i].y],
        video_list |-> [i \in 1..Len(rows) |-> rows[i].v],
        classes |-> classes]

(***************************************************************************)
(* train_test_split(X, y, test_size = self.test_split, random_state = 42)  *)
(***************************************************************************)
\* test_size = 0.05, in percent
test_split == 5

random_state == 42

\* the generator: a linear congruential stand-in for the Mersenne Twister
NextRng(s) == (5 * s + 3) % 16

RECURSIVE Advance(_, _)
Advance(s, k) == IF k = 0 THEN s ELSE Advance(NextRng(s), k - 1)

RngStateGlobal(g) == Advance(0, g)

\* random_state = 42: a generator seeded afresh on every call, whatever the
\* state g of the global generator
RngState(g) == random_state % 16

\* rng.permutation(n): Fisher-Yates from position i down
RECURSIVE Shuffle(_, _, _)
Shuffle(seq, i, s) ==
    IF i <= 1
      THEN seq
      ELSE LET j == 1 + (s % i)
               swapped == [seq EXCEPT ![i] = seq[j], ![j] = seq[i]]
           IN Shuffle(swapped, i - 1, NextRng(s))

Permutation(n, s) == Shuffle([i \in 1..n |-> i], n, s)

\* n_test = ceil(test_size * n_samples)
NTest(n) == (test_split * n + 99) \div 100

\* n_train = n_samples - n_test
NTrain(n) == n - NTest(n)

\* ValueError: the resulting train set would be empty
SplitRaises(n) == NTrain(n) = 0

\* the test indexes are permutation[:n_test], the train indexes the next n_train
TrainTestSplit(X, y, s) ==
    LET n == Len(X)
        perm == Permutation(n, s)
        ind_test == SubSeq(perm, 1, NTest(n))
        ind_train == SubSeq(perm, NTest(n) + 1, NTest(n) + NTrain(n))
    IN [X_train |-> [i \in 1..Len(ind_train) |-> X[ind_train[i]]],
        X_test |-> [i \in 1..Len(ind_test) |-> X[ind_test[i]]],
        y_train |-> [i \in 1..Len(ind_train) |-> y[ind_train[i]]],
        y_test |-> [i \in 1..Len(ind_test) |-> y[ind_test[i]]]]

(***************************************************************************)
(* DataHandler.get_training_data                                           *)
(***************************************************************************)
\* Python's None
None == [none |-> TRUE]

\* the current working directory; a run directory is <<training_version>>
Cwd == << >>
RunDir(training_version) == <<training_version>>

\* a file name: its directory, its stem, and whether it contains ".pkl"
DataPkl == [dir |-> Cwd, stem |-> "data", pkl |-> TRUE]

\* if save_data_as == None: "data.pkl"; if ".pkl" not in it: += ".pkl"
SaveDataAs(save_data_as) ==
    IF save_data_as = None
      THEN DataPkl
      ELSE [save_data_as EXCEPT !.pkl = TRUE]

SnapshotSwapped(split, video_list, classes) ==
    [X_train |-> split.X_test, y_train |-> split.y_test,
     X_test |-> split.X_train, y_test |-> split.y_train,
     classes |-> classes, videos |-> video_list]

\* the dict given to pkl.dump
Snapshot(split, video_list, classes) ==
    [X_train |-> split.X_train, y_train |-> split.y_train,
     X_test |-> split.X_test, y_test |-> split.y_test,
     classes |-> classes, videos |-> video_list]

\* return X_train, X_test, y_train, y_test, video_list, classes
Returned(Xtrain, Xtest, ytrain, ytest, video_list, classes) ==
    <<Xtrain, Xtest, ytrain, ytest, video_list, classes>>

\* the branch that reads data_dict = pkl.load(open(data_pickle, "rb"))
FromSnapshot(data_dict) ==
    Returned(data_dict["X_train"], data_dict["X_test"], data_dict["y_train"],
             data_dict["y_test"], data_dict["videos"], data_dict["classes"])

\* what callers pass as save_data_as and data_pickle
SaveNames == {None, [dir |-> Cwd, stem |-> "cache", pkl |-> FALSE],
              [dir |-> Cwd, stem |-> "cache", pkl |-> TRUE]}

\* str(datetime.now())[:16]: the timestamp cut to the minute
TrainingVersion(now) == now \div 2

RunDirs == {TrainingVersion(t) : t \in 0..MaxClock}

\* the snapshots get_training_data writes into the working directory
SnapshotNames == {DataPkl, [dir |-> Cwd, stem |-> "cache", pkl |-> TRUE]}

\* those, and the snapshots Trainer objects write into their run directories
PickleNames ==
    SnapshotNames
      \cup {[dir |-> RunDir(d), stem |-> "data", pkl |-> TRUE] : d \in RunDirs}

DataInit ==
    /\ tree \in Trees
    /\ clock = 0
    /\ global_rng = 0
    /\ dirs = {}
    /\ files = << >>
    /\ ret = None
    /\ outcome = "none"
    /\ last_call = [op |-> "none"]
    /\ ncalls = 0
    /\ extractions = 0
    /\ loads = 0
    /\ built = None
    /\ builds = {}

DataIdle ==
    /\ tree = << >>
    /\ clock = 0
    /\ global_rng = 0
    /\ dirs = {}
    /\ files = << >>
    /\ ret = None
    /\ outcome = "idle"
    /\ last_call = [op |-> "none"]
    /\ ncalls = 0
    /\ extractions = 0
    /\ loads = 0
    /\ built = None
    /\ builds = {}

\* the branch data_pickle == None, writing the snapshot to path
Extract(path) ==
    LET data == PrepareTrainingData(tree, tree)
        split == TrainTestSplit(data.X, data.y, RngState(global_rng))
        result == Returned(split.X_train, split.X_test, split.y_train, split.y_test,
                           data.video_list, data.classes)
    IN /\ extractions' = extractions + 1
       /\ built' = [tree |-> tree, data |-> data]
       /\ loads' = loads
       /\ IF SplitRaises(Len(data.X))
            THEN /\ outcome' = "ValueError"
                 /\ ret' = None
                 /\ UNCHANGED <<files, builds>>
            ELSE /\ outcome' = "ok"
                 /\ ret' = result
                 /\ files' = (path :> Snapshot(split, data.video_list, data.classes))
                               @@ files
                 /\ builds' = builds \cup {[tree |-> tree, ret |-> result]}

\* the branch data_pickle != None
Load(path) ==
    /\ IF path \in DOMAIN files
         THEN /\ outcome' = "ok"
              /\ ret' = FromSnapshot(files[path])
              /\ loads' = loads + 1
         ELSE /\ outcome' = "FileNotFoundError"
              /\ ret' = None
              /\ loads' = loads
    /\ UNCHANGED <<files, builds, extractions, built>>

GetTrainingDataExtract ==
    /\ ncalls < MaxCalls
    /\ \E save_data_as \in SaveNames :
         /\ last_call' = [op |-> "get_training_data", save_data_as |-> save_data_as,
                          data_pickle |-> None]
         /\ Extract([dir |-> SaveDataAs(save_data_as).dir,
                     stem |-> SaveDataAs(save_data_as).stem, pkl |-> TRUE])
    /\ ncalls' = ncalls + 1
    /\ UNCHANGED <<tree, clock, global_rng, dirs>>

GetTrainingDataLoad ==
    /\ ncalls < MaxCalls
    /\ \E data_pickle \in SnapshotNames :
         /\ last_call' = [op |-> "get_training_data", save_data_as |-> None,
                          data_pickle |-> data_pickle]
         /\ Load(data_pickle)
    /\ ncalls' = ncalls + 1
    /\ UNCHANGED <<tree, clock, global_rng, dirs>>

(***************************************************************************)
(* Trainer.__init__                                                        *)
(***************************************************************************)
MkdirExistOk(d, existing) == FALSE

\* os.mkdir(d) raises FileExistsError when d exists
MkdirRaises(d, existing) == d \in existing

\* os.mkdir(self.training_version) raises: nothing else runs
TrainerInitDirExists ==
    /\ ncalls < MaxCalls
    /\ MkdirRaises(TrainingVersion(clock), dirs)
    /\ \E data_to_use \in PickleNames \cup {None} :
         last_call' = [op |-> "Trainer", data_to_use |-> data_to_use,
                       training_version |-> TrainingVersion(clock)]
    /\ outcome' = "FileExistsError"
    /\ ret' = None
    /\ ncalls' = ncalls + 1
    /\ UNCHANGED <<tree, clock, global_rng, dirs, files, extractions, loads, built,
                   builds>>

\* data_to_use == None: the data is extracted and saved in the run directory
TrainerInitExtract ==
    /\ ncalls < MaxCalls
    /\ ~MkdirRaises(TrainingVersion(clock), dirs)
    /\ dirs' = dirs \cup {TrainingVersion(clock)}
    /\ last_call' = [op |-> "Trainer", data_to_use |-> None,
                     training_version |-> TrainingVersion(clock)]
    /\ Extract([dir |-> RunDir(TrainingVersion(clock)), stem |-> "data", pkl |-> TRUE])
    /\ ncalls' = ncalls + 1
    /\ UNCHANGED <<tree, clock, global_rng>>

\* data_to_use names a snapshot: it is loaded
TrainerInitLoad ==
    /\ ncalls < MaxCalls
    /\ ~MkdirRaises(TrainingVersion(clock), dirs)
    /\ dirs' = dirs \cup {TrainingVersion(clock)}
    /\ \E data_to_use \in PickleNames :
         /\ last_call' = [op |-> "Trainer", data_to_use |-> data_to_use,
                          training_version |-> TrainingVersion(clock)]
         /\ Load(data_to_use)
    /\ ncalls' = ncalls + 1
    /\ UNCHANGED <<tree, clock, global_rng>>

(***************************************************************************)
(* The environment of the calls.                                           *)
(***************************************************************************)
\* time passes
Tick ==
    /\ clock < MaxClock
    /\ clock' = clock + 1
    /\ UNCHANGED <<tree, global_rng, dirs, files, ret, outcome, last_call, ncalls,
                   extractions, loads, built, builds>>

\* other code (fit's shuffle) draws from the global np.random generator
GlobalRngDraw ==
    /\ global_rng < MaxDraws
    /\ global_rng' = global_rng + 1
    /\ UNCHANGED <<tree, clock, dirs, files, ret, outcome, last_call, ncalls,
                   extractions, loads, built, builds>>

SamplerNext ==
    \/ SampleNotOpened /\ UNCHANGED <<testerVars, trainVars, dataVars>>
    \/ SampleEndOfStream /\ UNCHANGED <<testerVars, trainVars, dataVars>>
    \/ SampleZeroDivision /\ UNCHANGED <<testerVars, trainVars, dataVars>>
    \/ SampleRead /\ UNCHANGED <<testerVars, trainVars, dataVars>>

InitSampler == SamplerInit /\ TesterIdle /\ TrainIdle /\ DataIdle

SpecSampler == InitSampler /\ [][SamplerNext]_vars

TesterNext ==
    \/ TestLoopEnd /\ UNCHANGED <<samplerVars, trainVars, dataVars>>
    \/ TestRowSuppressed /\ UNCHANGED <<samplerVars, trainVars, dataVars>>
    \/ TestRowRecorded /\ UNCHANGED <<samplerVars, trainVars, dataVars>>
    \/ TestReport /\ UNCHANGED <<samplerVars, trainVars, dataVars>>

InitTester == TesterInit /\ SamplerIdle /\ TrainIdle /\ DataIdle

SpecTester == InitTester /\ [][TesterNext]_vars

TrainNext ==
    \/ EpochEnd /\ UNCHANGED <<samplerVars, testerVars, dataVars>>
    \/ FitReturns /\ UNCHANGED <<samplerVars, testerVars, dataVars>>

InitTrain == TrainInit /\ SamplerIdle /\ TesterIdle /\ DataIdle

SpecTrain == InitTrain /\ [][TrainNext]_vars

SnapshotNext ==
    \/ GetTrainingDataExtract /\ UNCHANGED <<samplerVars, testerVars, trainVars>>
    \/ GetTrainingDataLoad /\ UNCHANGED <<samplerVars, testerVars, trainVars>>
    \/ GlobalRngDraw /\ UNCHANGED <<samplerVars, testerVars, trainVars>>

TrainerInitNext ==
    \/ TrainerInitDirExists /\ UNCHANGED <<samplerVars, testerVars, trainVars>>
    \/ TrainerInitExtract /\ UNCHANGED <<samplerVars, testerVars, trainVars>>
    \/ TrainerInitLoad /\ UNCHANGED <<samplerVars, testerVars, trainVars>>
    \/ Tick /\ UNCHANGED <<samplerVars, testerVars, trainVars>>

\* the calls of get_training_data on one DataHandler
InitData == DataInit /\ SamplerIdle /\ TesterIdle /\ TrainIdle

SpecSnapshot == InitData /\ [][SnapshotNext]_vars

\* the constructions of Trainer objects in one working directory
SpecTrainerInit == InitData /\ [][TrainerInitNext]_vars

(***************************************************************************)
(* C3: a video whose stream delivers frame_total >= 6 * n_frames frames    *)
(* yields exactly n_frames frames, the ones at read positions stride,      *)
(* 2*stride, ..., n_frames*stride with stride = frame_total \div n_frames  *)
(* - 5, in increasing order.                                               *)
(***************************************************************************)
C3_ExactlyNFrames ==
    (s_pc \in {"returned", "raised"} /\ opened /\ delivered = frame_total
        /\ frame_total >= 6 * n_frames)
    => /\ s_pc = "returned"
       /\ Len(s_result) = n_frames
       /\ \A i \in 1..Len(s_result) :
            s_result[i] = i * ((frame_total \div n_frames) - 5)

C3_Witness ==
    /\ s_pc = "returned"
    /\ opened /\ delivered = frame_total
    /\ frame_total >= 7 * n_frames
    /\ Len(s_result) = n_frames
    /\ s_result[n_frames] = 2 * n_frames

(***************************************************************************)
(* C4 (as claimed): with a zero or negative stride sample_frames never     *)
(* returns frames.  A consequence of the claim, which says that every such *)
(* call ends in an error.                                                  *)
(***************************************************************************)
C4_NoFramesForBadStride ==
    (s_pc = "returned" /\ Stride(frame_total) <= 0) => s_result = <<>>

(***************************************************************************)
(* C2 (as claimed): when test() has finished, every training example whose *)
(* similarity row has one or more entries above the threshold, a query     *)
(* whose only retrieved item is itself included, has contributed exactly   *)
(* one per-query accuracy to the mean.                                     *)
(***************************************************************************)
C2_EveryRetrievingQueryContributes ==
    t_pc = "done" =>
        \A idx \in 1..Len(feature_vectors) :
            RetrievedIndexes(feature_vectors, idx) # {}
              => Cardinality({i \in 1..Len(recorded) : recorded[i] = idx}) = 1

(***************************************************************************)
(* C5 (as claimed): the reported mean retrieval accuracy is a value in     *)
(* [0, 1] also in the case where no query contributed a per-query          *)
(* accuracy.                                                               *)
(***************************************************************************)
C5_MeanInUnitInterval ==
    (t_pc = "done" /\ accuracy_list = <<>>) =>
        /\ ~mean_accuracy.nan
        /\ 0 <= mean_accuracy.num
        /\ mean_accuracy.num <= mean_accuracy.den

(***************************************************************************)
(* C6 (as claimed): every query retrieves itself: each row idx the loop    *)
(* has handled has idx among the indexes above the threshold.              *)
(***************************************************************************)
C6_EveryQueryRetrievesItself ==
    \A idx \in 1..(t_idx - 1) : idx \in RetrievedIndexes(feature_vectors, idx)

(***************************************************************************)
(* C6 (amended): every query whose embedding is not the zero vector        *)
(* retrieves itself, and every per-query accuracy recorded for such a      *)
(* query is at least 1 / retrieved_count and is not 0.                     *)
(***************************************************************************)
C6_NonZeroQueryRetrievesItself ==
    /\ \A idx \in 1..(t_idx - 1) :
         Dot(feature_vectors[idx], feature_vectors[idx]) # 0
           => idx \in RetrievedIndexes(feature_vectors, idx)
    /\ \A i \in 1..Len(recorded) :
         Dot(feature_vectors[recorded[i]], feature_vectors[recorded[i]]) # 0
           => /\ ~accuracy_list[i].nan
              /\ accuracy_list[i].num >= 1
              /\ accuracy_list[i].den
                   = Cardinality(RetrievedIndexes(feature_vectors, recorded[i]))

C6_Witness ==
    /\ t_pc = "done"
    /\ \E i \in 1..Len(recorded) :
         /\ Dot(feature_vectors[recorded[i]], feature_vectors[recorded[i]]) # 0
         /\ accuracy_list[i].num = 1
         /\ accuracy_list[i].den = 2

(***************************************************************************)
(* C1 (as claimed): a checkpoint is written at the end of an epoch if and  *)
(* only if that epoch's validation accuracy strictly exceeds the           *)
(* validation accuracy of every earlier epoch of the run.                  *)
(***************************************************************************)
C1_CheckpointIffImproved ==
    {c.epoch : c \in checkpoints} = improved

(***************************************************************************)
(* C7: constructing a Trainer while the directory named by the current     *)
(* minute exists fails at the directory creation: no dataset is extracted  *)
(* or loaded, no snapshot is written, and the directories and files stay   *)
(* as they were.                                                           *)
(***************************************************************************)
C7_ExistingRunDirFails ==
    [][(/\ ncalls' = ncalls + 1
        /\ last_call'.op = "Trainer"
        /\ TrainingVersion(clock) \in dirs)
       => (/\ outcome' = "FileExistsError"
           /\ dirs' = dirs
           /\ files' = files
           /\ extractions' = extractions
           /\ loads' = loads)]_vars

C7_Witness ==
    /\ outcome = "FileExistsError"
    /\ last_call.op = "Trainer"
    /\ \E path \in DOMAIN files : path.dir = RunDir(last_call.training_version)

(***************************************************************************)
(* C8: a call without data_pickle writes a snapshot whose six fields equal *)
(* the data it returns; a call with data_pickle returns the six values of  *)
(* that snapshot, invokes no extraction and writes no snapshot.            *)
(***************************************************************************)
SixFieldsAre(data_dict, returned) ==
    /\ data_dict["X_train"] = returned[1]
    /\ data_dict["X_test"] = returned[2]
    /\ data_dict["y_train"] = returned[3]
    /\ data_dict["y_test"] = returned[4]
    /\ data_dict["videos"] = returned[5]
    /\ data_dict["classes"] = returned[6]

WrittenPath ==
    [dir |-> Cwd,
     stem |-> IF last_call.save_data_as = None THEN "data"
                                               ELSE last_call.save_data_as.stem,
     pkl |-> TRUE]

C8_SnapshotState ==
    (last_call.op = "get_training_data" /\ outcome = "ok")
    => IF last_call.data_pickle = None
         THEN /\ WrittenPath \in DOMAIN files
              /\ SixFieldsAre(files[WrittenPath], ret)
         ELSE /\ last_call.data_pickle \in DOMAIN files
              /\ SixFieldsAre(files[last_call.data_pickle], ret)

C8_SnapshotCaching ==
    /\ []C8_SnapshotState
    /\ [][(/\ ncalls' = ncalls + 1
           /\ last_call'.op = "get_training_data"
           /\ last_call'.data_pickle # None)
          => (extractions' = extractions /\ files' = files)]_vars

C8_Witness ==
    /\ last_call.op = "get_training_data"
    /\ last_call.data_pickle # None
    /\ outcome = "ok"
    /\ extractions = 1
    /\ Len(ret[1]) >= 2
    /\ Len(ret[2]) >= 1

(***************************************************************************)
(* C9: the split partitions the labeled dataset (every sample is in        *)
(* exactly one of train and test, with its label), the test part has       *)
(* test_split percent of the samples up to rounding (30 samples give 28    *)
(* and 2), and two builds over the same input give the same split.         *)
(***************************************************************************)
Occurrences(X, y, x, label) ==
    Cardinality({i \in 1..Len(X) : X[i] = x /\ y[i] = label})

C9_SplitPartitions ==
    /\ (last_call.op = "get_training_data" /\ outcome = "ok"
          /\ last_call.data_pickle = None)
       => LET data == built.data
              n == Len(data.X)
          IN /\ Len(ret[1]) = Len(ret[3])
             /\ Len(ret[2]) = Len(ret[4])
             /\ Len(ret[1]) + Len(ret[2]) = n
             /\ \A i \in 1..n :
                  Occurrences(ret[1], ret[3], data.X[i], data.y[i])
                    + Occurrences(ret[2], ret[4], data.X[i], data.y[i]) = 1
             /\ 100 * Len(ret[2]) - test_split * n < 100
             /\ test_split * n - 100 * Len(ret[2]) < 100
    /\ NTest(30) = 2 /\ NTrain(30) = 28
    /\ \A b1 \in builds : \A b2 \in builds : b1.tree = b2.tree => b1.ret = b2.ret

C9_Witness ==
    /\ last_call.op = "get_training_data"
    /\ outcome = "ok"
    /\ last_call.data_pickle = None
    /\ extractions = 2
    /\ global_rng = 1
    /\ Len(ret[1]) = 3
    /\ Len(ret[2]) = 1

(***************************************************************************)
(* C10: classes has one entry per subdirectory of the root, with the       *)
(* indexes 0..len(classes)-1 in sorted name order; features, labels and    *)
(* video paths have one entry per file, in sorted order within each class; *)
(* every label is in [0, len(classes)) and is the index of the             *)
(* subdirectory the video came from.                                       *)
(***************************************************************************)
PathBefore(v, w) == v[1] < w[1] \/ (v[1] = w[1] /\ v[2] < w[2])

=============================================================================
